---- MODULE Spec2Model ----
(***************************************************************************)
(* Floating-rate loan administration: period generation, business-day      *)
(* arithmetic and the schedule engine (Loan.calculate_schedule).           *)
(*                                                                         *)
(* Representation.                                                         *)
(*  - A datetime is its proleptic Gregorian ordinal (datetime.toordinal()),*)
(*    so timedelta(days=k) is +k and weekday() is (ordinal + 6) % 7.       *)
(*  - Money is an integer number of cents.  Python floats are read as the  *)
(*    exact numbers they approximate; the inputs are kept on a grid on     *)
(*    which principal * rate * days / 360 is an integer (ExactArithmetic). *)
(*  - An annual rate is an integer, 1 standing for 1.00 (100% a year).     *)
(*  - A Python dict is a function on its key set; a list is a sequence.    *)
(***************************************************************************)
EXTENDS Integers, Sequences, FiniteSets, TLC

VARIABLES loan, sofr_rates, pik_elections, payments, result

vars == <<loan, sofr_rates, pik_elections, payments, result>>

None == "None"
ValueError == "ValueError"

(***************************************************************************)
(* datetime                                                                *)
(***************************************************************************)
Years == 2021 .. 2028

IsLeap(y) == (y % 4 = 0) /\ ((y % 100 # 0) \/ (y % 400 = 0))

DaysInMonth(y, m) ==
  IF m = 2 THEN (IF IsLeap(y) THEN 29 ELSE 28)
  ELSE IF m \in {4, 6, 9, 11} THEN 30 ELSE 31

DaysBeforeYear(y) ==
  (y - 1) * 365 + ((y - 1) \div 4) - ((y - 1) \div 100) + ((y - 1) \div 400)

RECURSIVE DaysBeforeMonth(_, _)
DaysBeforeMonth(y, m) ==
  IF m = 1 THEN 0 ELSE DaysBeforeMonth(y, m - 1) + DaysInMonth(y, m - 1)

\* datetime(year, month, day)
Date(y, m, d) == DaysBeforeYear(y) + DaysBeforeMonth(y, m) + d

\* datetime.year
YearOf(o) == CHOOSE y \in Years : DaysBeforeYear(y) < o /\ o <= DaysBeforeYear(y + 1)

\* datetime.month
MonthOf(o) ==
  LET y == YearOf(o)
  IN  CHOOSE m \in 1 .. 12 :
        Date(y, m, 1) <= o /\ o < Date(y, m, 1) + DaysInMonth(y, m)

\* datetime.weekday(): Monday is 0, Sunday is 6
Weekday(o) == (o + 6) % 7

\* x in list
InList(x, list) == \E i \in DOMAIN list : list[i] = x

(***************************************************************************)
(* business_days.py                                                        *)
(***************************************************************************)
get_nth_weekday(year, month, weekday, n) ==
  LET first_day == Date(year, month, 1)
      first_weekday == Weekday(first_day)
      days_until_weekday == (weekday - first_weekday + 7) % 7
      first_occurrence == first_day + days_until_weekday
      fifth_occurrence == first_occurrence + 7 * 4
  IN  IF n > 0 THEN first_occurrence + 7 * (n - 1)
      ELSE IF MonthOf(fifth_occurrence) = month THEN fifth_occurrence
      ELSE first_occurrence + 7 * 3

\* Observed without the weekend adjustment
Observed_Nominal(holiday) == holiday

\* the weekend adjustment applied to each holiday of the list
Observed(holiday) ==
  IF Weekday(holiday) = 5 THEN holiday - 1
  ELSE IF Weekday(holiday) = 6 THEN holiday + 1
  ELSE holiday

get_us_bank_holidays(year) ==
  LET holidays == << Date(year, 1, 1), Date(year, 6, 19), Date(year, 7, 4),
                     Date(year, 11, 11), Date(year, 12, 25),
                     get_nth_weekday(year, 1, 0, 3),
                     get_nth_weekday(year, 2, 0, 3),
                     get_nth_weekday(year, 5, 0, 0 - 1),
                     get_nth_weekday(year, 9, 0, 1),
                     get_nth_weekday(year, 11, 3, 4) >>
  IN  [i \in DOMAIN holidays |-> Observed(holidays[i])]

\* calendar last day of the month
LastDayOfMonth(year, month) ==
  IF month = 12 THEN Date(year + 1, 1, 1) - 1 ELSE Date(year, month + 1, 1) - 1

\* IsBusinessDay without the holiday list
IsBusinessDay_WeekdaysOnly(d, holidays) == Weekday(d) < 5

\* weekday() < 5 and d not in holidays
IsBusinessDay(d, holidays) == Weekday(d) < 5 /\ ~InList(d, holidays)

RECURSIVE StepBackToBusinessDay(_, _)
StepBackToBusinessDay(last_day, holidays) ==
  IF IsBusinessDay(last_day, holidays) THEN last_day
  ELSE StepBackToBusinessDay(last_day - 1, holidays)

get_last_business_day_of_month(year, month, holidays) ==
  StepBackToBusinessDay(LastDayOfMonth(year, month), holidays)

\* the else branch of get_period_end_date: raise ValueError
get_period_end_date_raises(convention) ==
  convention \notin {"last_business_day", "calendar_month_end"}

get_period_end_date(year, month, holidays, convention) ==
  IF convention = "last_business_day"
    THEN get_last_business_day_of_month(year, month, holidays)
  ELSE IF convention = "calendar_month_end"
    THEN LastDayOfMonth(year, month)
  ELSE ValueError

RECURSIVE AddBusinessDaysLoop(_, _, _, _)
AddBusinessDaysLoop(current_date, step, days_remaining, holidays) ==
  IF days_remaining > 0
    THEN LET next_date == current_date + step
         IN  AddBusinessDaysLoop(next_date, step,
               IF IsBusinessDay(next_date, holidays)
                 THEN days_remaining - 1 ELSE days_remaining,
               holidays)
    ELSE current_date

\* add_business_days stepping over calendar days
add_business_days_CalendarDays(start_date, days, holidays) == start_date + days

add_business_days(start_date, days, holidays) ==
  AddBusinessDaysLoop(start_date,
                      IF days >= 0 THEN 1 ELSE 0 - 1,
                      IF days >= 0 THEN days ELSE 0 - days,
                      holidays)

(***************************************************************************)
(* loan_periods.py                                                         *)
(***************************************************************************)
Period(number, start, end) ==
  [period_number |-> number, start_date |-> start, end_date |-> end,
   payment_due_date |-> end, days |-> (end - start) + 1]

\* the while loop of the middle periods, followed by the last period
RECURSIVE MiddleAndLastPeriods(_, _, _, _, _, _)
MiddleAndLastPeriods(periods, period_number, current_start_date, maturity_date, holidays, convention) ==
  IF current_start_date < Date(YearOf(maturity_date), MonthOf(maturity_date), 1)
    THEN LET y == YearOf(current_start_date)
             m == MonthOf(current_start_date)
             current_end_date == get_period_end_date(y, m, holidays, convention)
             next_start == IF m = 12 THEN Date(y + 1, 1, 1) ELSE Date(y, m + 1, 1)
         IN  MiddleAndLastPeriods(
               Append(periods, Period(period_number, current_start_date, current_end_date)),
               period_number + 1, next_start, maturity_date, holidays, convention)
    ELSE Append(periods, Period(period_number, current_start_date, maturity_date))

\* generate_interest_periods without the replacement of period 1 (lines 30-39)
generate_interest_periods_NoReplace(origination_date, maturity_date, holidays, convention) ==
  LET first_period_end ==
        get_period_end_date(YearOf(origination_date), MonthOf(origination_date),
                            holidays, convention)
  IN  IF get_period_end_date_raises(convention) THEN ValueError
      ELSE IF YearOf(origination_date) = YearOf(maturity_date)
              /\ MonthOf(origination_date) = MonthOf(maturity_date)
        THEN << Period(1, origination_date, first_period_end) >>
      ELSE MiddleAndLastPeriods(
             << Period(1, origination_date, first_period_end) >>,
             2, first_period_end + 1, maturity_date, holidays, convention)

generate_interest_periods(origination_date, maturity_date, holidays, convention) ==
  LET first_period_end ==
        get_period_end_date(YearOf(origination_date), MonthOf(origination_date),
                            holidays, convention)
  IN  IF get_period_end_date_raises(convention) THEN ValueError
      ELSE IF YearOf(origination_date) = YearOf(maturity_date)
              /\ MonthOf(origination_date) = MonthOf(maturity_date)
        THEN << Period(1, origination_date, maturity_date) >>
      ELSE MiddleAndLastPeriods(
             << Period(1, origination_date, first_period_end) >>,
             2, first_period_end + 1, maturity_date, holidays, convention)

(***************************************************************************)
(* interest_calculations.py                                                *)
(***************************************************************************)
Max(a, b) == IF a >= b THEN a ELSE b
Min(a, b) == IF a <= b THEN a ELSE b

\* calculate_effective_rate without the ceiling
calculate_effective_rate_NoCeiling(sofr_rate, margin, floor, ceiling) ==
  Max(floor, sofr_rate) + margin

calculate_effective_rate(sofr_rate, margin, floor, ceiling) ==
  LET adjusted_sofr == Max(floor, Min(sofr_rate, ceiling))
  IN  adjusted_sofr + margin

\* x * m / q, computed without leaving 32 bits.  It is the exact quotient
\* whenever q divides x * m, and its floor otherwise.
MulDiv(x, m, q) == (x \div q) * m + ((x % q) * m) \div q

\* calculate_period_interest_raises with actual/actual let through
calculate_period_interest_raises_ActualActual(day_count_convention) ==
  day_count_convention \notin {"actual/360", "actual/365", "30/360", "actual/actual"}

\* the else branch of calculate_period_interest: raise ValueError
calculate_period_interest_raises(day_count_convention) ==
  day_count_convention \notin {"actual/360", "actual/365", "30/360"}

calculate_period_interest(principal, annual_rate, days, day_count_convention) ==
  IF day_count_convention = "actual/360" THEN MulDiv(principal, annual_rate * days, 360)
  ELSE IF day_count_convention = "actual/365" THEN MulDiv(principal, annual_rate * days, 365)
  ELSE IF day_count_convention = "30/360" THEN MulDiv(principal, annual_rate * days, 360)
  ELSE ValueError

\* list.sort(key=payment_date): stable, ascending
RECURSIVE InsertByDate(_, _)
InsertByDate(sorted, p) ==
  IF sorted = << >> THEN << p >>
  ELSE IF sorted[Len(sorted)].payment_date <= p.payment_date THEN Append(sorted, p)
  ELSE Append(InsertByDate(SubSeq(sorted, 1, Len(sorted) - 1), p), sorted[Len(sorted)])

RECURSIVE SortByDate(_)
SortByDate(list) ==
  IF list = << >> THEN << >>
  ELSE InsertByDate(SortByDate(SubSeq(list, 1, Len(list) - 1)), list[Len(list)])

InPeriod(p, period_start, period_end) ==
  period_start <= p.payment_date /\ p.payment_date <= period_end

RECURSIVE SumAmounts(_)
SumAmounts(list) ==
  IF list = << >> THEN 0
  ELSE SumAmounts(SubSeq(list, 1, Len(list) - 1)) + list[Len(list)].amount

\* the loop over the middle segments (for i in range(1, len(period_prepayments)))
\* followed by the last segment; i is 1-based here
RECURSIVE MiddleAndLastSegments(_, _, _, _, _)
MiddleAndLastSegments(segments, current_principal, i, period_prepayments, period_end) ==
  IF i <= Len(period_prepayments)
    THEN MiddleAndLastSegments(
           Append(segments,
                  [start     |-> period_prepayments[i - 1].payment_date + 1,
                   end       |-> period_prepayments[i].payment_date,
                   principal |-> current_principal]),
           current_principal - period_prepayments[i].amount,
           i + 1, period_prepayments, period_end)
    ELSE [segments |->
            Append(segments,
                   [start     |-> period_prepayments[Len(period_prepayments)].payment_date + 1,
                    end       |-> period_end,
                    principal |-> current_principal]),
          current_principal |-> current_principal]

\* BuildSegments with the first segment ending the day before the first event
BuildSegments_ShortFirst(period_start, period_end, starting_principal, period_prepayments) ==
  IF period_prepayments # << >>
    THEN MiddleAndLastSegments(
           << [start     |-> period_start,
               end       |-> period_prepayments[1].payment_date - 1,
               principal |-> starting_principal] >>,
           starting_principal - period_prepayments[1].amount,
           2, period_prepayments, period_end)
    ELSE [segments |-> << [start |-> period_start, end |-> period_end,
                           principal |-> starting_principal] >>,
          current_principal |-> starting_principal]

\* BuildSegments with each event deducted before the segment it ends is priced
BuildSegments_DeductFirst(period_start, period_end, starting_principal, period_prepayments) ==
  IF period_prepayments # << >>
    THEN LET built == MiddleAndLastSegments(
                        << [start     |-> period_start,
                            end       |-> period_prepayments[1].payment_date,
                            principal |-> starting_principal] >>,
                        starting_principal - period_prepayments[1].amount,
                        2, period_prepayments, period_end)
             n == Len(built.segments)
         IN  [segments |->
                [i \in 1 .. n |->
                   [built.segments[i] EXCEPT
                      !.principal = IF i < n THEN built.segments[i + 1].principal ELSE @]],
              current_principal |-> built.current_principal]
    ELSE [segments |-> << [start |-> period_start, end |-> period_end,
                           principal |-> starting_principal] >>,
          current_principal |-> starting_principal]

\* step 2 of calculate_segmented_interest: the segments and the running principal
BuildSegments(period_start, period_end, starting_principal, period_prepayments) ==
  IF period_prepayments # << >>
    THEN MiddleAndLastSegments(
           << [start     |-> period_start,
               end       |-> period_prepayments[1].payment_date,
               principal |-> starting_principal] >>,
           starting_principal - period_prepayments[1].amount,
           2, period_prepayments, period_end)
    ELSE [segments |-> << [start |-> period_start, end |-> period_end,
                           principal |-> starting_principal] >>,
          current_principal |-> starting_principal]

RECURSIVE SumInterest(_)
SumInterest(details) ==
  IF details = << >> THEN 0
  ELSE SumInterest(SubSeq(details, 1, Len(details) - 1)) + details[Len(details)].interest

calculate_segmented_interest(period_start, period_end, starting_principal, effective_rate, prepayments) ==
  LET period_prepayments ==
        SortByDate(SelectSeq(prepayments,
                             LAMBDA p : InPeriod(p, period_start, period_end)))
      built == BuildSegments(period_start, period_end, starting_principal,
                             period_prepayments)
      segments == built.segments
      segment_details ==
        [i \in DOMAIN segments |->
          LET days == (segments[i].end - segments[i].start) + 1
          IN  [segment_num |-> i,
               start_date  |-> segments[i].start,
               end_date    |-> segments[i].end,
               days        |-> days,
               principal   |-> segments[i].principal,
               interest    |-> calculate_period_interest(segments[i].principal,
                                 effective_rate, days, "actual/360")]]
  IN  [total_interest   |-> SumInterest(segment_details),
       ending_principal |-> built.current_principal,
       segment_details  |-> segment_details]

(***************************************************************************)
(* loan.py                                                                 *)
(***************************************************************************)
NoLoan == [loan_id |-> None]

\* Loan._get_relevant_holidays: for year in range(origination.year, maturity.year + 1)
RECURSIVE HolidaysFrom(_, _)
HolidaysFrom(year, last_year) ==
  IF year > last_year THEN << >>
  ELSE get_us_bank_holidays(year) \o HolidaysFrom(year + 1, last_year)

_get_relevant_holidays(origination_date, maturity_date) ==
  HolidaysFrom(YearOf(origination_date), YearOf(maturity_date))

\* Loan.__init__: the object it leaves behind
NewLoan(principal, margin, origination_date, maturity_date, sofr_floor, sofr_ceiling, period_end_convention, pik_rate, interest_prepayment) ==
  LET holidays == _get_relevant_holidays(origination_date, maturity_date)
  IN  [loan_id               |-> "LOAN-001",
       principal             |-> principal,
       margin                |-> margin,
       origination_date      |-> origination_date,
       maturity_date         |-> maturity_date,
       sofr_floor            |-> sofr_floor,
       sofr_ceiling          |-> sofr_ceiling,
       period_end_convention |-> period_end_convention,
       pik_rate              |-> pik_rate,
       interest_prepayment   |-> interest_prepayment,
       holidays              |-> holidays,
       periods               |-> generate_interest_periods(origination_date,
                                   maturity_date, holidays, period_end_convention)]

\* the reset date of a period: two business days before its start
ResetDate(l, period) == add_business_days(period.start_date, 0 - 2, l.holidays)

\* get_required_sofr_dates with the reset one business day before the start
get_required_sofr_dates_OneDay(l) ==
  [i \in DOMAIN l.periods |-> add_business_days(l.periods[i].start_date, 0 - 1, l.holidays)]

get_required_sofr_dates(l) ==
  [i \in DOMAIN l.periods |-> ResetDate(l, l.periods[i])]

\* dict.get(key, default)
Get(dict, key, default) == IF key \in DOMAIN dict THEN dict[key] ELSE default

\* ElectionsUsed without the override of a loan that has no PIK rate
ElectionsUsed_AsSupplied(l, elections) == elections

\* lines 127-139: the elections the fold reads
ElectionsUsed(l, elections) ==
  IF l.pik_rate > 0 THEN elections
  ELSE [n \in {l.periods[i].period_number : i \in DOMAIN l.periods} |-> FALSE]

IsPrepayment(p) == p.payment_type = "principal_prepayment"

\* the PIK amount of an elected period, capped at the interest owed
PikAmount(principal_after_prepayment, pik_rate, days, interest_owed) ==
  LET pik_amount == calculate_period_interest(principal_after_prepayment,
                                              pik_rate, days, "actual/360")
  IN  IF pik_amount > interest_owed THEN interest_owed ELSE pik_amount

\* CashDue without the PIK amount
CashDue_NoPik(interest_owed, prepaid_applied, pik_amount) ==
  interest_owed - prepaid_applied

\* final cash due of a period
CashDue(interest_owed, prepaid_applied, pik_amount) ==
  interest_owed - prepaid_applied - pik_amount

\* PrepaidBalanceEnd dropping what is left once part of the balance is applied
PrepaidBalanceEnd_DropsRest(current_prepaid_balance, prepaid_applied) ==
  IF current_prepaid_balance > 0 /\ prepaid_applied = 0 THEN current_prepaid_balance
  ELSE 0

\* the prepaid balance at the end of a period
PrepaidBalanceEnd(current_prepaid_balance, prepaid_applied) ==
  IF current_prepaid_balance > 0 THEN current_prepaid_balance - prepaid_applied
  ELSE 0

\* PikElected without the prepaid-balance gate
PikElected_IgnoresPrepaid(elections, period_num, prepaid_balance_start) ==
  Get(elections, period_num, FALSE)

\* PikElected with an absent election read as True
PikElected_DefaultTrue(elections, period_num, prepaid_balance_start) ==
  Get(elections, period_num, TRUE) /\ prepaid_balance_start = 0

\* effective PIK election of a period
PikElected(elections, period_num, prepaid_balance_start) ==
  Get(elections, period_num, FALSE) /\ prepaid_balance_start = 0

\* the segments stored in an entry of a period with no prepayment
NoSegments == << >>

\* lines 175-196: interest owed, principal after prepayment and segments
AccrueInterest(period, prepayments, period_prepayments, current_principal, effective_rate) ==
  IF period_prepayments # << >>
    THEN calculate_segmented_interest(period.start_date, period.end_date,
                                      current_principal, effective_rate, prepayments)
    ELSE [total_interest   |-> calculate_period_interest(current_principal,
                                 effective_rate, period.days, "actual/360"),
          ending_principal |-> current_principal,
          segment_details  |-> NoSegments]

\* lines 201-206: the prepaid interest applied to a period
PrepaidApplied(current_prepaid_balance, interest_owed) ==
  IF current_prepaid_balance > 0 THEN Min(current_prepaid_balance, interest_owed)
  ELSE 0

\* what lines 222-225 and 234-235 print
Printed(elected, pik_elected, pik_uncapped, interest_owed, prepaid_balance_start, period_num) ==
  IF pik_elected
    THEN (IF pik_uncapped > interest_owed
            THEN << [message |-> "Warning", period_number |-> period_num] >>
            ELSE << >>)
  ELSE IF elected /\ prepaid_balance_start > 0
    THEN << [message |-> "Note", period_number |-> period_num] >>
  ELSE << >>

\* lines 240-258: the schedule entry, with what the iteration printed
BuildEntry(l, period, current_principal, sofr_reset_date, sofr_rate, effective_rate, interest_owed, principal_after_prepayment, segments, period_prepayments, prepaid_balance_start, prepaid_applied, pik_elected, pik_amount, printed) ==
  [entry |->
     [period_number         |-> period.period_number,
      start_date            |-> period.start_date,
      end_date              |-> period.end_date,
      payment_due_date      |-> period.payment_due_date,
      days                  |-> period.days,
      principal_beginning   |-> current_principal,
      sofr_reset_date       |-> sofr_reset_date,
      sofr_rate             |-> sofr_rate,
      effective_rate        |-> effective_rate,
      interest_owed         |-> interest_owed,
      prepaid_balance_start |-> prepaid_balance_start,
      prepaid_applied       |-> prepaid_applied,
      prepaid_balance_end   |-> PrepaidBalanceEnd(prepaid_balance_start, prepaid_applied),
      pik_elected           |-> pik_elected,
      pik_rate              |-> l.pik_rate,
      pik_amount            |-> pik_amount,
      cash_due              |-> CashDue(interest_owed, prepaid_applied, pik_amount),
      principal_ending      |-> IF pik_elected
                                  THEN principal_after_prepayment + pik_amount
                                  ELSE principal_after_prepayment,
      segments              |-> segments,
      prepayments           |-> period_prepayments],
   printed |-> printed]

\* lines 210-235: the PIK election of the period and the PIK amount
ApplyPik(l, period, elections, current_principal, sofr_reset_date, sofr_rate, effective_rate, interest_owed, principal_after_prepayment, segments, period_prepayments, prepaid_balance_start, prepaid_applied, pik_elected) ==
  BuildEntry(l, period, current_principal, sofr_reset_date, sofr_rate, effective_rate,
             interest_owed, principal_after_prepayment, segments, period_prepayments,
             prepaid_balance_start, prepaid_applied, pik_elected,
             IF pik_elected
               THEN PikAmount(principal_after_prepayment, l.pik_rate, period.days,
                              interest_owed)
               ELSE 0,
             Printed(Get(elections, period.period_number, FALSE), pik_elected,
                     calculate_period_interest(principal_after_prepayment, l.pik_rate,
                                               period.days, "actual/360"),
                     interest_owed, prepaid_balance_start, period.period_number))

\* lines 198-211: the prepaid balance applied to the interest owed
ApplyPrepaid(l, period, elections, current_principal, current_prepaid_balance, sofr_reset_date, sofr_rate, effective_rate, accrued, period_prepayments) ==
  ApplyPik(l, period, elections, current_principal, sofr_reset_date, sofr_rate,
           effective_rate, accrued.total_interest, accrued.ending_principal,
           accrued.segment_details, period_prepayments, current_prepaid_balance,
           PrepaidApplied(current_prepaid_balance, accrued.total_interest),
           PikElected(elections, period.period_number, current_prepaid_balance))

\* lines 167-196: the effective rate and the interest of the period
PriceEntry(l, period, elections, prepayments, current_principal, current_prepaid_balance, sofr_reset_date, sofr_rate, effective_rate, period_prepayments) ==
  ApplyPrepaid(l, period, elections, current_principal, current_prepaid_balance,
               sofr_reset_date, sofr_rate, effective_rate,
               AccrueInterest(period, prepayments, period_prepayments,
                              current_principal, effective_rate),
               period_prepayments)

\* one iteration of the loop over self.periods, the rate being present at
\* sofr_reset_date
ScheduleEntry(l, period, rates, elections, prepayments, current_principal, current_prepaid_balance, sofr_reset_date) ==
  PriceEntry(l, period, elections, prepayments, current_principal,
             current_prepaid_balance, sofr_reset_date, rates[sofr_reset_date],
             calculate_effective_rate(rates[sofr_reset_date], l.margin,
                                      l.sofr_floor, l.sofr_ceiling),
             SelectSeq(prepayments,
                       LAMBDA p : InPeriod(p, period.start_date, period.end_date)))

\* RaiseMissingRate returning the entries built so far
RaiseMissingRate_Partial(schedule, printed) ==
  [outcome |-> "returned", schedule |-> schedule, printed |-> printed]

\* what calculate_schedule leaves when the rate of a period is missing
RaiseMissingRate(schedule, printed) ==
  [outcome |-> "raised", schedule |-> << >>, printed |-> printed]

\* NextPrincipal without the update of the period
NextPrincipal_Stale(entry) == entry.principal_beginning

\* the principal carried into the next period
NextPrincipal(entry) == entry.principal_ending

\* the accumulators after an iteration, and the rest of the loop
RECURSIVE ScheduleLoop(_, _, _, _, _, _, _, _, _)
Continue(l, rates, elections, prepayments, i, schedule, printed, step) ==
  ScheduleLoop(l, rates, elections, prepayments, i + 1,
               Append(schedule, step.entry),
               NextPrincipal(step.entry),
               step.entry.prepaid_balance_end,
               printed \o step.printed)

\* an iteration of the loop, its reset date computed
Iteration(l, rates, elections, prepayments, i, schedule, current_principal, current_prepaid_balance, printed, sofr_reset_date) ==
  IF sofr_reset_date \notin DOMAIN rates
    THEN RaiseMissingRate(schedule, printed)
    ELSE Continue(l, rates, elections, prepayments, i, schedule, printed,
                  ScheduleEntry(l, l.periods[i], rates, elections, prepayments,
                                current_principal, current_prepaid_balance,
                                sofr_reset_date))

\* the loop over self.periods (lines 149-263); i is the 1-based position
ScheduleLoop(l, rates, elections, prepayments, i, schedule, current_principal, current_prepaid_balance, printed) ==
  IF i > Len(l.periods)
    THEN [outcome |-> "returned", schedule |-> schedule, printed |-> printed]
    ELSE Iteration(l, rates, elections, prepayments, i, schedule, current_principal,
                   current_prepaid_balance, printed, ResetDate(l, l.periods[i]))

\* tolerance = 0.01, in cents
Tolerance == 1

\* payment_date of an entry without interest payments (None)
NoDate == 0

\* period_number of a payment recorded without one (None)
NoPeriod == 0

\* PaymentStatus without the tolerance
PaymentStatus_NoTolerance(amount_paid, cash_due) ==
  IF amount_paid >= cash_due THEN "Paid"
  ELSE IF amount_paid > 0 THEN "Partially Paid"
  ELSE "Unpaid"

\* lines 278-283: the status of an entry
PaymentStatus(amount_paid, cash_due) ==
  IF amount_paid >= cash_due - Tolerance THEN "Paid"
  ELSE IF amount_paid > Tolerance THEN "Partially Paid"
  ELSE "Unpaid"

RECURSIVE MaxDate(_)
MaxDate(list) ==
  IF Len(list) = 1 THEN list[1].payment_date
  ELSE Max(MaxDate(SubSeq(list, 1, Len(list) - 1)), list[Len(list)].payment_date)

\* lines 290-295: the days past the due date
DaysPastDue(payment_status, due_date, today) ==
  IF payment_status \in {"Unpaid", "Partially Paid"} /\ today > due_date
    THEN today - due_date ELSE 0

\* lines 274-300: the annotation, from the interest payments of the period
Annotate(entry, period_payments, amount_paid, today) ==
  [amount_paid    |-> amount_paid,
   payment_status |-> PaymentStatus(amount_paid, entry.cash_due),
   payment_date   |-> IF period_payments # << >> THEN MaxDate(period_payments)
                      ELSE NoDate,
   days_past_due  |-> Max(0, DaysPastDue(PaymentStatus(amount_paid, entry.cash_due),
                                         entry.payment_due_date, today))] @@ entry

\* the interest payments recorded for a period
PeriodPayments(all_payments, period_num) ==
  SelectSeq(all_payments,
            LAMBDA p : p.payment_type = "interest" /\ p.period_number = period_num)

\* the payment-status annotation of one entry (lines 267-300); today is the
\* calendar day of datetime.now()
WithPaymentStatus(entry, all_payments, today) ==
  Annotate(entry, PeriodPayments(all_payments, entry.period_number),
           SumAmounts(PeriodPayments(all_payments, entry.period_number)), today)

\* lines 265-302: the optional payment-status pass over the finished fold
Finish(fold, all_payments, include_payment_status, today) ==
  IF fold.outcome = "returned" /\ include_payment_status
    THEN [fold EXCEPT !.schedule =
            [k \in DOMAIN fold.schedule |->
               WithPaymentStatus(fold.schedule[k], all_payments, today)]]
    ELSE fold

\* Loan.calculate_schedule with the rate table and the elections of the data
\* files: the value it returns, or the error it raises
calculate_schedule(l, rates, elections, all_payments, include_payment_status, today) ==
  Finish(ScheduleLoop(l, rates, ElectionsUsed(l, elections),
                      SelectSeq(all_payments, IsPrepayment), 1,
                      << >>, l.principal, l.interest_prepayment, << >>),
         all_payments, include_payment_status, today)

(***************************************************************************)
(* The inputs                                                              *)
(***************************************************************************)
\* 360^3 cents: interest stays a whole number of cents through three periods
\* of capitalisation
PrincipalUnit == 360 * 360 * 360

Principals == {2 * PrincipalUnit}
Margins == {1}
Floors == {0}
Ceilings == {2}
PikRates == {0, 2}
InterestPrepayments == {0, 6000000}
Conventions == {"last_business_day", "calendar_month_end"}
DatePairs == { << Date(2025, 1, 15), Date(2025, 1, 31) >>,
               << Date(2025, 5, 15), Date(2025, 6, 20) >> }
SofrValues == {0, 3}
\* principal prepayments: <<days after origination, amount>>
PrepaymentEvents == { << 5, PrincipalUnit >>, << 10, 3 * PrincipalUnit >>,
                      << 20, PrincipalUnit >> }
InterestPaymentAmounts == {3000000}
\* datetime.now(): after the first due date of every loan, before the last of some
Todays == {Date(2025, 6, 10)}
MaxPayments == 2

NoResult == [outcome |-> "none", schedule |-> << >>, printed |-> << >>]

(***************************************************************************)
(* The state machine                                                       *)
(***************************************************************************)
Init ==
  /\ loan = NoLoan
  /\ sofr_rates = << >>
  /\ pik_elections = << >>
  /\ payments = << >>
  /\ result = NoResult

\* Loan(...)
Construct ==
  /\ loan = NoLoan
  /\ \E principal \in Principals, margin \in Margins, dates \in DatePairs,
        floor \in Floors, ceiling \in Ceilings, convention \in Conventions,
        pik_rate \in PikRates, interest_prepayment \in InterestPrepayments :
       loan' = NewLoan(principal, margin, dates[1], dates[2], floor, ceiling,
                       convention, pik_rate, interest_prepayment)
  /\ UNCHANGED <<sofr_rates, pik_elections, payments, result>>

\* add_sofr_rate(reset_date, rate): a later row of the file replaces an earlier one
AddSofrRate ==
  /\ loan # NoLoan
  /\ result = NoResult
  /\ \E i \in DOMAIN loan.periods, rate \in SofrValues :
       LET reset_date == get_required_sofr_dates(loan)[i]
       IN  sofr_rates' = [d \in DOMAIN sofr_rates \cup {reset_date} |->
                            IF d = reset_date THEN rate ELSE sofr_rates[d]]
  /\ UNCHANGED <<loan, pik_elections, payments, result>>

\* add_pik_election(loan_id, period_number, pik_elected)
AddPikElection ==
  /\ loan # NoLoan
  /\ result = NoResult
  /\ \E period_number \in DOMAIN loan.periods, pik_elected \in BOOLEAN :
       pik_elections' = [n \in DOMAIN pik_elections \cup {period_number} |->
                           IF n = period_number THEN pik_elected
                           ELSE pik_elections[n]]
  /\ UNCHANGED <<loan, sofr_rates, payments, result>>

\* add_payment(loan_id, payment_date, amount, payment_type, period_number)
AddPayment ==
  /\ loan # NoLoan
  /\ result = NoResult
  /\ Len(payments) < MaxPayments
  /\ \/ \E event \in PrepaymentEvents :
            payments' = Append(payments,
                          [payment_date   |-> loan.origination_date + event[1],
                           amount         |-> event[2],
                           payment_type   |-> "principal_prepayment",
                           period_number  |-> NoPeriod])
     \/ \E amount \in InterestPaymentAmounts :
            payments' = Append(payments,
                          [payment_date   |-> loan.periods[1].payment_due_date,
                           amount         |-> amount,
                           payment_type   |-> "interest",
                           period_number  |-> 1])
  /\ UNCHANGED <<loan, sofr_rates, pik_elections, result>>

\* loan.calculate_schedule(...)
CalculateSchedule ==
  /\ loan # NoLoan
  /\ result = NoResult
  /\ \E include_payment_status \in BOOLEAN, today \in Todays :
       result' = calculate_schedule(loan, sofr_rates, pik_elections, payments,
                                    include_payment_status, today)
  /\ UNCHANGED <<loan, sofr_rates, pik_elections, payments>>

Next ==
  \/ Construct
  \/ AddSofrRate
  \/ AddPikElection
  \/ AddPayment
  \/ CalculateSchedule

Spec == Init /\ [][Next]_vars

(***************************************************************************)
(* The constructor on any configuration                                    *)
(***************************************************************************)
AnyPrincipals == {0 - 2 * PrincipalUnit, 2 * PrincipalUnit}
AnyDates == {Date(2025, 1, 15), Date(2025, 1, 31), Date(2025, 5, 15),
             Date(2025, 5, 31), Date(2025, 6, 20)}
AnyFloors == {0, 3}
AnyConventions == Conventions \cup {"semi_monthly"}

Raised == [outcome |-> "raised", schedule |-> << >>, printed |-> << >>]

\* Loan(...) on a configuration of any kind: the object it leaves behind, or
\* the ValueError of get_period_end_date passing through __init__
ConstructAny ==
  /\ loan = NoLoan
  /\ result = NoResult
  /\ \E principal \in AnyPrincipals, margin \in Margins,
        origination_date \in AnyDates, maturity_date \in AnyDates,
        floor \in AnyFloors, ceiling \in Ceilings, convention \in AnyConventions,
        pik_rate \in PikRates, interest_prepayment \in {0} :
       IF get_period_end_date_raises(convention)
         THEN loan' = NoLoan /\ result' = Raised
         ELSE /\ loan' = NewLoan(principal, margin, origination_date, maturity_date,
                                 floor, ceiling, convention, pik_rate,
                                 interest_prepayment)
              /\ result' = NoResult
  /\ UNCHANGED <<sofr_rates, pik_elections, payments>>

ConfigNext == ConstructAny

ConfigSpec == Init /\ [][ConfigNext]_vars

(***************************************************************************)
(* The rate and calendar functions called on their own; result holds the   *)
(* call and the value it returned                                          *)
(***************************************************************************)
MaxRate == 3
MaxExtraHolidays == 3
MaxBusinessDays == 3

Call(name, args, value) ==
  [outcome |-> "returned", call |-> name, args |-> args, value |-> value]

\* calculate_effective_rate(sofr_rate, margin, floor, ceiling)
CallEffectiveRate ==
  /\ result = NoResult
  /\ \E sofr_rate \in (0 - 1) .. (MaxRate + 1), margin \in 0 .. 1,
        floor \in 0 .. MaxRate, ceiling \in 0 .. MaxRate :
       result' = Call("calculate_effective_rate",
                      << sofr_rate, margin, floor, ceiling >>,
                      calculate_effective_rate(sofr_rate, margin, floor, ceiling))
  /\ UNCHANGED <<loan, sofr_rates, pik_elections, payments>>

\* the last k calendar days of a month, as a list of dates
RECURSIVE LastDays(_, _, _)
LastDays(year, month, k) ==
  IF k = 0 THEN << >>
  ELSE Append(LastDays(year, month, k - 1), LastDayOfMonth(year, month) - (k - 1))

\* get_last_business_day_of_month(year, month, holidays), the holidays being
\* the bank holidays of the year and the last k days of the month
CallLastBusinessDay ==
  /\ result = NoResult
  /\ \E year \in Years, month \in 1 .. 12, k \in 0 .. MaxExtraHolidays :
       LET holidays == get_us_bank_holidays(year) \o LastDays(year, month, k)
       IN  result' = Call("get_last_business_day_of_month",
                          << year, month, holidays >>,
                          get_last_business_day_of_month(year, month, holidays))
  /\ UNCHANGED <<loan, sofr_rates, pik_elections, payments>>

\* the start dates: Friday 2025-06-27 to Monday 2025-07-07, around the holiday
\* of 2025-07-04
StartDates == Date(2025, 6, 27) .. Date(2025, 7, 7)

\* add_business_days(start_date, days, holidays)
CallAddBusinessDays ==
  /\ result = NoResult
  /\ \E start_date \in StartDates, days \in (0 - MaxBusinessDays) .. MaxBusinessDays :
       result' = Call("add_business_days",
                      << start_date, days, get_us_bank_holidays(2025) >>,
                      add_business_days(start_date, days, get_us_bank_holidays(2025)))
  /\ UNCHANGED <<loan, sofr_rates, pik_elections, payments>>

\* get_us_bank_holidays(year)
CallBankHolidays ==
  /\ result = NoResult
  /\ \E year \in Years :
       result' = Call("get_us_bank_holidays", << year >>, get_us_bank_holidays(year))
  /\ UNCHANGED <<loan, sofr_rates, pik_elections, payments>>

CallNext ==
  \/ CallEffectiveRate
  \/ CallLastBusinessDay
  \/ CallAddBusinessDays
  \/ CallBankHolidays

CallSpec == Init /\ [][CallNext]_vars

(***************************************************************************)
(* The conventions: the constructor and calculate_period_interest          *)
(***************************************************************************)
DayCountConventions == {"actual/360", "actual/365", "30/360", "actual/actual", "30E/360"}

\* calculate_period_interest(principal, annual_rate, days, day_count_convention)
CallPeriodInterest ==
  /\ loan = NoLoan
  /\ result = NoResult
  /\ \E principal \in {360 * 365, 2 * 360 * 365}, annual_rate \in 1 .. 2,
        days \in {0, 1, 30}, day_count_convention \in DayCountConventions :
       result' =
         IF calculate_period_interest_raises(day_count_convention)
           THEN [outcome |-> "raised", call |-> "calculate_period_interest",
                 args |-> << principal, annual_rate, days, day_count_convention >>,
                 value |-> ValueError]
           ELSE Call("calculate_period_interest",
                     << principal, annual_rate, days, day_count_convention >>,
                     calculate_period_interest(principal, annual_rate, days,
                                               day_count_convention))
  /\ UNCHANGED <<loan, sofr_rates, pik_elections, payments>>

ConventionNext == ConstructAny \/ CallPeriodInterest

ConventionSpec == Init /\ [][ConventionNext]_vars

(***************************************************************************)
(* Prepayments dated on the last calendar day of the origination month     *)
(***************************************************************************)
\* add_payment(loan_id, payment_date, amount, "principal_prepayment")
AddMonthEndPrepayment ==
  /\ loan # NoLoan
  /\ result = NoResult
  /\ Len(payments) < MaxPayments
  /\ payments' = Append(payments,
                    [payment_date   |-> LastDayOfMonth(YearOf(loan.origination_date),
                                                        MonthOf(loan.origination_date)),
                     amount         |-> PrincipalUnit,
                     payment_type   |-> "principal_prepayment",
                     period_number  |-> NoPeriod])
  /\ UNCHANGED <<loan, sofr_rates, pik_elections, result>>

MonthEndNext ==
  \/ Construct
  \/ AddSofrRate
  \/ AddPikElection
  \/ AddMonthEndPrepayment
  \/ CalculateSchedule

MonthEndSpec == Init /\ [][MonthEndNext]_vars

(***************************************************************************)
(* A second run on the same Loan object                                    *)
(***************************************************************************)
\* datetime.now() at the second run
LaterTodays == {Date(2025, 7, 1)}

\* LoanAfterRun with the accumulators of the run written back to the object
LoanAfterRun_KeepsBalances(l, r) ==
  IF r.outcome = "returned"
    THEN [l EXCEPT !.principal = r.schedule[Len(r.schedule)].principal_ending,
                   !.interest_prepayment = r.schedule[Len(r.schedule)].prepaid_balance_end]
    ELSE l

\* LoanAfterRun with the payment-status annotations of the schedule written to
\* the period records of the Loan
LoanAfterRun_AnnotatesPeriods(l, r) ==
  IF Len(r.schedule) = Len(l.periods)
    THEN [l EXCEPT !.periods =
            [i \in DOMAIN l.periods |->
               [f \in DOMAIN r.schedule[i] \ (DOMAIN l.periods[i]) |-> r.schedule[i][f]]
                 @@ l.periods[i]]]
    ELSE l

\* the Loan object after calculate_schedule has run: the method assigns no
\* attribute of self, its accumulators are locals
LoanAfterRun(l, r) == l

\* include_payment_status of the run that produced r
Annotated(r) == r.schedule # << >> /\ "payment_status" \in DOMAIN r.schedule[1]

\* loan.calculate_schedule(...) once more, with the same arguments and files
Rerun ==
  /\ loan # NoLoan
  /\ result # NoResult
  /\ \E today \in LaterTodays :
       result' = calculate_schedule(LoanAfterRun(loan, result), sofr_rates,
                                    pik_elections, payments, Annotated(result), today)
  /\ loan' = LoanAfterRun(loan, result)
  /\ UNCHANGED <<sofr_rates, pik_elections, payments>>

RerunNext == Next \/ Rerun

RerunSpec == Init /\ [][RerunNext]_vars

(***************************************************************************)
(* The payment-status pass on an entry of any cash_due                     *)
(***************************************************************************)
MaxCents == 3
MaxStatusPayments == 2

\* the rows of a payments file: interest payments of period 1 or 2 and
\* principal prepayments, of 0 .. MaxCents cents
StatusPaymentRows ==
  { [payment_date |-> Date(2025, 5, 30), amount |-> amount,
     payment_type |-> kind[1], period_number |-> kind[2]] :
      amount \in 0 .. MaxCents,
      kind \in { << "interest", 1 >>, << "interest", 2 >>,
                 << "principal_prepayment", NoPeriod >> } }

StatusPaymentFiles ==
  UNION { [1 .. n -> StatusPaymentRows] : n \in 0 .. MaxStatusPayments }

\* the pass of lines 265-300 over a schedule of one entry, that of period 1
AnnotateEntry ==
  /\ result = NoResult
  /\ payments = << >>
  /\ \E cash_due \in 0 .. (MaxCents + 2), file \in StatusPaymentFiles,
        today \in Todays :
       /\ payments' = file
       /\ result' = Finish([outcome  |-> "returned",
                            schedule |-> << [period_number    |-> 1,
                                             payment_due_date |-> Date(2025, 5, 30),
                                             cash_due         |-> cash_due] >>,
                            printed  |-> << >>],
                           file, TRUE, today)
  /\ UNCHANGED <<loan, sofr_rates, pik_elections>>

StatusNext == AnnotateEntry

StatusSpec == Init /\ [][StatusNext]_vars

(***************************************************************************)
(* Properties                                                              *)
(***************************************************************************)
Returned == result.outcome = "returned"
Entries == DOMAIN result.schedule
Entry(k) == result.schedule[k]

RECURSIVE SumDays(_)
SumDays(list) ==
  IF list = << >> THEN 0
  ELSE SumDays(SubSeq(list, 1, Len(list) - 1)) + list[Len(list)].days

\* the principal prepayments of the payment file dated within the period of e
EventsInPeriod(e) ==
  SelectSeq(payments,
            LAMBDA p : IsPrepayment(p) /\ e.start_date <= p.payment_date
                                      /\ p.payment_date <= e.end_date)

\* the principal of the period of e once its prepayments are deducted
PrincipalAfterPrepayment(e) == e.principal_beginning - SumAmounts(EventsInPeriod(e))

\* every principal on which interest is computed is a multiple of 360, so that
\* MulDiv is the exact quotient throughout (no rounding enters the model)
ExactArithmetic ==
  Returned =>
    \A k \in Entries :
      /\ Entry(k).principal_beginning % 360 = 0
      /\ PrincipalAfterPrepayment(Entry(k)) % 360 = 0
      /\ \A i \in DOMAIN Entry(k).segments : Entry(k).segments[i].principal % 360 = 0

\* C1: for origination_date < maturity_date and both conventions, period 1
\* starts at origination_date, the last period ends at maturity_date, every
\* later period starts one day after its predecessor ends, and the days of all
\* periods sum to (maturity_date - origination_date).days + 1.
C1_PeriodsPartitionTheTerm ==
  (loan # NoLoan /\ loan.origination_date < loan.maturity_date) =>
    LET ps == loan.periods
    IN  /\ ps[1].start_date = loan.origination_date
        /\ ps[Len(ps)].end_date = loan.maturity_date
        /\ \A k \in 2 .. Len(ps) : ps[k].start_date = ps[k - 1].end_date + 1
        /\ SumDays(ps) = (loan.maturity_date - loan.origination_date) + 1

\* C2: in every returned schedule, entry 1 begins with loan.principal and
\* loan.interest_prepayment, and each entry begins with the principal and the
\* prepaid balance its predecessor ended with.
C2_BalancesCarried ==
  Returned =>
    /\ Entry(1).principal_beginning = loan.principal
    /\ Entry(1).prepaid_balance_start = loan.interest_prepayment
    /\ \A k \in Entries : k + 1 \in Entries =>
         /\ Entry(k).principal_ending = Entry(k + 1).principal_beginning
         /\ Entry(k).prepaid_balance_end = Entry(k + 1).prepaid_balance_start

\* a schedule whose first period changes both balances and has a successor
C2_Witness ==
  /\ Returned
  /\ Len(result.schedule) >= 2
  /\ Entry(1).principal_ending # Entry(1).principal_beginning
  /\ Entry(1).prepaid_balance_end # Entry(1).prepaid_balance_start
  /\ Entry(2).principal_ending # Entry(2).principal_beginning

\* C3: every schedule entry satisfies
\* interest_owed = prepaid_applied + pik_amount + cash_due.
C3_InterestSplit ==
  Returned =>
    \A k \in Entries :
      Entry(k).interest_owed
        = Entry(k).prepaid_applied + Entry(k).pik_amount + Entry(k).cash_due

\* a schedule with a period in which the prepaid balance runs out and cash is
\* due, a period with a mid-period prepayment, and a period with capped PIK
C3_Witness ==
  /\ Returned
  /\ \E k \in Entries : /\ Entry(k).prepaid_balance_start > 0
                        /\ Entry(k).prepaid_balance_end = 0
                        /\ Entry(k).cash_due > 0
                        /\ Entry(k).segments # << >>
  /\ \E k \in Entries : /\ Entry(k).pik_amount > 0
                        /\ Entry(k).pik_amount = Entry(k).interest_owed
                        /\ \E i \in DOMAIN result.printed :
                             result.printed[i] = [message |-> "Warning",
                                                  period_number |-> Entry(k).period_number]

\* C4: cash_due >= 0 in every schedule entry, for every input accepted by
\* calculate_schedule.
C4_CashDueNonNegative ==
  Returned => \A k \in Entries : Entry(k).cash_due >= 0

\* C5: in every entry with prepaid_balance_start > 0 the effective pik_elected
\* is False and pik_amount = 0, whatever the election of the period.
C5_PrepaidBlocksPik ==
  Returned =>
    \A k \in Entries :
      Entry(k).prepaid_balance_start > 0 =>
        (~Entry(k).pik_elected /\ Entry(k).pik_amount = 0)

\* a PIK loan with a True election for a period in which the prepaid balance
\* runs out part-way
C5_Witness ==
  /\ Returned
  /\ loan.pik_rate > 0
  /\ \E k \in Entries : /\ Get(pik_elections, Entry(k).period_number, FALSE)
                        /\ Entry(k).prepaid_balance_start > 0
                        /\ Entry(k).prepaid_balance_end = 0
                        /\ Entry(k).interest_owed > Entry(k).prepaid_applied

\* C6: for a loan with pik_rate > 0, pik_elected of an entry is True exactly
\* when the election of its period_number is True (absent counting as False)
\* and prepaid_balance_start = 0; then principal_ending is the principal after
\* prepayment plus pik_amount, otherwise pik_amount = 0 and principal_ending is
\* the principal after prepayment.
C6_PikPrecedence ==
  (Returned /\ loan.pik_rate > 0) =>
    \A k \in Entries :
      LET e == Entry(k)
      IN  /\ e.pik_elected <=> (/\ e.period_number \in DOMAIN pik_elections
                                /\ pik_elections[e.period_number]
                                /\ e.prepaid_balance_start = 0)
          /\ e.pik_elected =>
               e.principal_ending = PrincipalAfterPrepayment(e) + e.pik_amount
          /\ ~e.pik_elected =>
               (e.pik_amount = 0 /\ e.principal_ending = PrincipalAfterPrepayment(e))

\* PIK blocked in an elected period that starts with a prepaid balance, and
\* taking effect in the next period, which starts with none
C6_Witness ==
  /\ Returned
  /\ loan.pik_rate > 0
  /\ \E k \in Entries : /\ k + 1 \in Entries
                        /\ Entry(k).prepaid_balance_start > 0
                        /\ Get(pik_elections, Entry(k).period_number, FALSE)
                        /\ ~Entry(k).pik_elected
                        /\ Entry(k + 1).prepaid_balance_start = 0
                        /\ Entry(k + 1).pik_elected
                        /\ Entry(k + 1).pik_amount > 0
                        /\ Entry(k + 1).principal_ending > Entry(k + 1).principal_beginning

\* C7: pik_amount <= interest_owed in every schedule entry, and a computed PIK
\* amount above interest_owed neither raises nor stops the fold.
C7_PikAtMostInterest ==
  Returned =>
    /\ Len(result.schedule) = Len(loan.periods)
    /\ \A k \in Entries : Entry(k).pik_amount <= Entry(k).interest_owed

Perms(n) == {f \in [1 .. n -> 1 .. n] : \A i, j \in 1 .. n : f[i] = f[j] => i = j}

\* the amounts of the first i events of evs taken in the order f
RECURSIVE SumFirst(_, _, _)
SumFirst(evs, f, i) == IF i = 0 THEN 0 ELSE SumFirst(evs, f, i - 1) + evs[f[i]].amount

\* C9: with the in-period events sorted by date, segment i is priced at the
\* starting principal minus the amounts of events 1 .. i-1, the total interest
\* is the sum of the segment interests, and the ending principal is the
\* starting principal minus the amounts of the events dated within the period;
\* events outside the period have no effect.
C9_SegmentPricing ==
  Returned =>
    \A k \in Entries :
      Entry(k).segments # << >> =>
        LET e == Entry(k)
            evs == EventsInPeriod(e)
            n == Len(evs)
            segs == e.segments
        IN  /\ Len(segs) = n + 1
            /\ \E f \in Perms(n) :
                 /\ \A i \in 1 .. n - 1 :
                      evs[f[i]].payment_date <= evs[f[i + 1]].payment_date
                 /\ \A i \in 1 .. n : segs[i].end_date = evs[f[i]].payment_date
                 /\ \A i \in 1 .. n + 1 :
                      segs[i].principal = e.principal_beginning - SumFirst(evs, f, i - 1)
            /\ \A i \in 1 .. n + 1 :
                 segs[i].interest
                   = MulDiv(segs[i].principal, e.effective_rate * segs[i].days, 360)
            /\ e.interest_owed = SumInterest(segs)
            /\ e.principal_ending - e.pik_amount
                 = e.principal_beginning - SumAmounts(evs)

\* a period whose two events are recorded later date first, with different
\* amounts, next to a period whose events all lie outside it
C9_Witness ==
  /\ Returned
  /\ \E k \in Entries :
       LET evs == EventsInPeriod(Entry(k))
       IN  /\ Len(evs) = 2
           /\ evs[1].payment_date > evs[2].payment_date
           /\ evs[1].amount # evs[2].amount
           /\ Entry(k).segments[2].days > 0
           /\ Entry(k).effective_rate > 0

\* C10: if the reset date of any period is absent from the rate table,
\* calculate_schedule raises and returns no schedule; it returns, with one
\* entry per period, only if every reset date is present.
C10_NoPartialSchedule ==
  (loan # NoLoan /\ result # NoResult) =>
    IF \E i \in DOMAIN loan.periods : ResetDate(loan, loan.periods[i]) \notin DOMAIN sofr_rates
      THEN result.outcome = "raised" /\ result.schedule = << >>
      ELSE Returned /\ Len(result.schedule) = Len(loan.periods)

\* the rate of the first period is present and that of a later period is not
C10_Witness ==
  /\ loan # NoLoan
  /\ result.outcome = "raised"
  /\ ResetDate(loan, loan.periods[1]) \in DOMAIN sofr_rates
  /\ \E i \in DOMAIN loan.periods : ResetDate(loan, loan.periods[i]) \notin DOMAIN sofr_rates

\* C11: a configuration with origination_date >= maturity_date, a negative
\* principal or sofr_floor > sofr_ceiling is rejected by the constructor: no
\* Loan object with periods exists for it.
C11_InvalidConfigurationRejected ==
  loan # NoLoan =>
    /\ loan.origination_date < loan.maturity_date
    /\ loan.principal >= 0
    /\ loan.sofr_floor <= loan.sofr_ceiling

\* C19: when origination_date and maturity_date fall in the same month of the
\* same year, generate_interest_periods returns exactly one period, numbered
\* 1, from origination_date to maturity_date, due at maturity_date, of
\* (maturity_date - origination_date).days + 1 days, under either convention.
C19_SinglePeriod ==
  (/\ loan # NoLoan
   /\ YearOf(loan.origination_date) = YearOf(loan.maturity_date)
   /\ MonthOf(loan.origination_date) = MonthOf(loan.maturity_date)) =>
    loan.periods = << [period_number    |-> 1,
                       start_date       |-> loan.origination_date,
                       end_date         |-> loan.maturity_date,
                       payment_due_date |-> loan.maturity_date,
                       days |-> (loan.maturity_date - loan.origination_date) + 1] >>

\* a single-month loan under last_business_day whose maturity is the calendar
\* month end, a Saturday, after the last business day of the month
C19_Witness ==
  /\ loan # NoLoan
  /\ loan.period_end_convention = "last_business_day"
  /\ loan.origination_date = Date(2025, 5, 15)
  /\ loan.maturity_date = Date(2025, 5, 31)
  /\ get_last_business_day_of_month(2025, 5, loan.holidays) < loan.maturity_date
  /\ Len(loan.periods) = 1

\* an entry without its days_past_due
WithoutDaysPastDue(e) == [f \in DOMAIN e \ {"days_past_due"} |-> e[f]]

Called(name) == result # NoResult /\ result.call = name

\* a date that is neither a Saturday, a Sunday nor a member of holidays
BusinessDate(d, holidays) ==
  Weekday(d) \notin {5, 6} /\ \A i \in DOMAIN holidays : holidays[i] # d

\* C13: calculate_effective_rate returns margin + max(floor, min(sofr,
\* ceiling)); for floor <= ceiling the index component lies in [floor,
\* ceiling], is sofr when floor <= sofr <= ceiling, floor when sofr < floor and
\* ceiling when sofr > ceiling.
C13_EffectiveRateClamp ==
  Called("calculate_effective_rate") =>
    LET sofr == result.args[1]
        margin == result.args[2]
        floor == result.args[3]
        ceiling == result.args[4]
        capped == IF sofr <= ceiling THEN sofr ELSE ceiling
        index == result.value - margin
    IN  /\ result.value = margin + (IF floor >= capped THEN floor ELSE capped)
        /\ floor <= ceiling =>
             /\ floor <= index /\ index <= ceiling
             /\ (floor <= sofr /\ sofr <= ceiling) => index = sofr
             /\ sofr < floor => index = floor
             /\ sofr > ceiling => index = ceiling

\* a rate above the ceiling, the ceiling above the floor, with a margin
C13_Witness ==
  /\ Called("calculate_effective_rate")
  /\ result.args[1] > result.args[4]
  /\ result.args[4] > result.args[3]
  /\ result.args[2] > 0
  /\ result.value = result.args[2] + result.args[4]

\* C14: get_last_business_day_of_month returns the latest date of the month
\* that is neither a Saturday, a Sunday nor a holiday: the result is such a
\* date of the month and no later date of the month is one; August 2025
\* resolves to 2025-08-29.
C14_LastBusinessDay ==
  Called("get_last_business_day_of_month") =>
    LET year == result.args[1]
        month == result.args[2]
        holidays == result.args[3]
        last == (IF month = 12 THEN Date(year + 1, 1, 1) ELSE Date(year, month + 1, 1)) - 1
    IN  /\ Date(year, month, 1) <= result.value /\ result.value <= last
        /\ BusinessDate(result.value, holidays)
        /\ \A d \in (result.value + 1) .. last : ~BusinessDate(d, holidays)
        /\ (year = 2025 /\ month = 8 /\ Len(holidays) = 10) =>
             result.value = Date(2025, 8, 29)

\* May 2021 ends on Memorial Day, a Monday after a weekend: Friday the 28th
C14_Witness ==
  /\ Called("get_last_business_day_of_month")
  /\ result.args[1] = 2021 /\ result.args[2] = 5
  /\ Weekday(Date(2021, 5, 31)) = 0
  /\ InList(Date(2021, 5, 31), result.args[3])
  /\ Len(result.args[3]) = 10
  /\ result.value = Date(2021, 5, 28)

\* C15: add_business_days(start, n, holidays) returns start for n = 0; for
\* n # 0 it returns a business day on the side of start that the sign of n
\* names, with exactly |n| business days from start (exclusive) to the result
\* (inclusive).
C15_AddBusinessDays ==
  Called("add_business_days") =>
    LET start == result.args[1]
        n == result.args[2]
        holidays == result.args[3]
        value == result.value
    IN  /\ n = 0 => value = start
        /\ n > 0 =>
             /\ value > start
             /\ BusinessDate(value, holidays)
             /\ Cardinality({d \in (start + 1) .. value : BusinessDate(d, holidays)}) = n
        /\ n < 0 =>
             /\ value < start
             /\ BusinessDate(value, holidays)
             /\ Cardinality({d \in value .. (start - 1) : BusinessDate(d, holidays)}) = 0 - n

\* two business days back from Monday 2025-07-07, over a weekend and the
\* holiday of Friday 2025-07-04: Wednesday 2025-07-02
C15_Witness ==
  /\ Called("add_business_days")
  /\ result.args[1] = Date(2025, 7, 7)
  /\ result.args[2] = 0 - 2
  /\ InList(Date(2025, 7, 4), result.args[3])
  /\ result.value = Date(2025, 7, 2)

\* the date on which a holiday of nominal date d is observed
ObservedOn(d) == IF Weekday(d) = 5 THEN d - 1 ELSE IF Weekday(d) = 6 THEN d + 1 ELSE d

C17_NoPikRateAllCash ==
  (Returned /\ loan.pik_rate = 0) =>
    /\ \A k \in Entries : ~Entry(k).pik_elected /\ Entry(k).pik_amount = 0
    /\ (loan.interest_prepayment = 0 /\ SelectSeq(payments, IsPrepayment) = << >>) =>
         \A k \in Entries : /\ Entry(k).cash_due = Entry(k).interest_owed
                              /\ Entry(k).principal_ending = Entry(k).principal_beginning

\* a loan without PIK rate, pre-funded interest or prepayment, with a True
\* election recorded for a period in which interest is owed
C17_Witness ==
  /\ Returned
  /\ loan.pik_rate = 0
  /\ loan.interest_prepayment = 0
  /\ SelectSeq(payments, IsPrepayment) = << >>
  /\ Len(result.schedule) >= 2
  /\ \E k \in Entries : /\ Get(pik_elections, Entry(k).period_number, FALSE)
                          /\ Entry(k).interest_owed > 0

\* the elections with the election of period k set to elected
WithElection(elections, k, elected) ==
  [n \in DOMAIN elections \cup {k} |-> IF n = k THEN elected ELSE elections[n]]

\* entry k of the run on the inputs of the state, the election of its period
\* set to elected
EntryWithElection(k, elected) ==
  calculate_schedule(loan, sofr_rates,
                     WithElection(pik_elections, Entry(k).period_number, elected),
                     payments, FALSE, Date(2025, 6, 10)).schedule[k]

\* C18: for a loan with pik_rate > 0 and a period k with positive beginning
\* principal, positive effective rate, no prepaid balance (and no prepayment
\* within it), the runs that differ only in the election of period k have the
\* same interest_owed[k], and the elected run has cash_due[k] strictly lower
\* and principal_ending[k] strictly above principal_beginning[k]; an entry
\* without PIK and without prepayment has principal_ending = principal_beginning.
C18_PikElectionEffect ==
  (Returned /\ loan.pik_rate > 0) =>
    \A k \in Entries :
      /\ (/\ Entry(k).principal_beginning > 0
          /\ Entry(k).effective_rate > 0
          /\ Entry(k).prepaid_balance_start = 0
          /\ EventsInPeriod(Entry(k)) = << >>) =>
           LET elected == EntryWithElection(k, TRUE)
               declined == EntryWithElection(k, FALSE)
           IN  /\ elected.interest_owed = declined.interest_owed
               /\ elected.cash_due < declined.cash_due
               /\ elected.principal_ending > elected.principal_beginning
      /\ (~Entry(k).pik_elected /\ EventsInPeriod(Entry(k)) = << >>) =>
           Entry(k).principal_ending = Entry(k).principal_beginning

\* the interest paid for the period of entry e according to the payments file
AmountPaidFor(e) ==
  SumAmounts(SelectSeq(payments,
                       LAMBDA p : /\ p.payment_type = "interest"
                                  /\ p.period_number = e.period_number))

C21_RequiredDatesAreLookedUp ==
  (loan # NoLoan /\ result # NoResult) =>
    LET required == get_required_sofr_dates(loan)
    IN  /\ Len(required) = Len(loan.periods)
        /\ \A i \in DOMAIN required :
             /\ required[i] < loan.periods[i].start_date
             /\ BusinessDate(required[i], loan.holidays)
             /\ Cardinality({d \in required[i] .. (loan.periods[i].start_date - 1) :
                               BusinessDate(d, loan.holidays)}) = 2
        /\ Returned <=> \A i \in DOMAIN required : required[i] \in DOMAIN sofr_rates
        /\ result.outcome = "raised"
             <=> \E i \in DOMAIN required : required[i] \notin DOMAIN sofr_rates
        /\ Returned =>
             \A k \in Entries : Entry(k).sofr_reset_date = required[k]

\* a returned schedule of several periods, one of them reset over a weekend
C21_Witness ==
  /\ Returned
  /\ Len(result.schedule) >= 2
  /\ \E k \in Entries : Entry(k).start_date - Entry(k).sofr_reset_date > 2
  /\ \A i \in DOMAIN loan.periods : get_required_sofr_dates(loan)[i] \in DOMAIN sofr_rates

\* C22: in every entry prepaid_applied = min(prepaid_balance_start,
\* interest_owed) and prepaid_balance_end = prepaid_balance_start -
\* prepaid_applied; the prepaid balance is never negative, never increases
\* from a period to the next, and is strictly lower at the start of period
\* k+1 than at the start of period k when it was positive and interest was owed.
C22_PrepaidBalanceRunsDown ==
  (Returned /\ loan.interest_prepayment >= 0) =>
    \A k \in Entries :
      LET e == Entry(k)
      IN  /\ e.prepaid_applied
               = (IF e.prepaid_balance_start <= e.interest_owed
                    THEN e.prepaid_balance_start ELSE e.interest_owed)
          /\ e.prepaid_balance_end = e.prepaid_balance_start - e.prepaid_applied
          /\ e.prepaid_balance_start >= 0 /\ e.prepaid_balance_end >= 0
          /\ k + 1 \in Entries =>
               /\ Entry(k + 1).prepaid_balance_start <= e.prepaid_balance_start
               /\ (e.prepaid_balance_start > 0 /\ e.interest_owed > 0) =>
                    Entry(k + 1).prepaid_balance_start < e.prepaid_balance_start

\* the first day of the month that lies n months after the month of date o
RECURSIVE FirstOfMonthAfter(_, _)
FirstOfMonthAfter(o, n) ==
  IF n = 0 THEN Date(YearOf(o), MonthOf(o), 1)
  ELSE LET first == FirstOfMonthAfter(o, n - 1)
       IN  first + DaysInMonth(YearOf(first), MonthOf(first))

\* C23: with origination and maturity in different months there is exactly
\* one period per calendar month from the month of origination through the
\* month of maturity, numbered 1 .. n in calendar order; every period after
\* the first starts on the first day of its month, every period before the
\* last ends on the period-end date of its month under the convention, which
\* is its payment_due_date, and the last period runs from the first day of
\* the month of maturity to maturity_date.
C23_OnePeriodPerMonth ==
  (/\ loan # NoLoan
   /\ loan.origination_date < loan.maturity_date
   /\ FirstOfMonthAfter(loan.origination_date, 0)
        # FirstOfMonthAfter(loan.maturity_date, 0)) =>
    LET ps == loan.periods
        n == Len(ps)
    IN  /\ FirstOfMonthAfter(loan.origination_date, n - 1)
             = FirstOfMonthAfter(loan.maturity_date, 0)
        /\ \A i \in 1 .. n :
             LET first == FirstOfMonthAfter(loan.origination_date, i - 1)
                 last == first + DaysInMonth(YearOf(first), MonthOf(first)) - 1
             IN  /\ ps[i].period_number = i
                 /\ i > 1 => ps[i].start_date = first
                 /\ i < n =>
                      /\ ps[i].payment_due_date = ps[i].end_date
                      /\ first <= ps[i].end_date /\ ps[i].end_date <= last
                      /\ IF loan.period_end_convention = "calendar_month_end"
                           THEN ps[i].end_date = last
                           ELSE /\ BusinessDate(ps[i].end_date, loan.holidays)
                                /\ \A d \in (ps[i].end_date + 1) .. last :
                                     ~BusinessDate(d, loan.holidays)
        /\ ps[n].start_date = FirstOfMonthAfter(loan.maturity_date, 0)
        /\ ps[n].end_date = loan.maturity_date

WithoutPayment(j) ==
  SubSeq(payments, 1, j - 1) \o SubSeq(payments, j + 1, Len(payments))

\* the schedule of the run on the inputs of the state less payment record j
ScheduleWithout(j) ==
  calculate_schedule(loan, sofr_rates, pik_elections, WithoutPayment(j),
                     Annotated(result), CHOOSE today \in Todays : TRUE).schedule

\* C25: for a loan without PIK and with positive effective rates, a principal
\* prepayment of amount a > 0 dated inside period k leaves the entries of the
\* periods before k as they are without it, lowers principal_beginning of
\* every period after k by a and makes interest_owed of every period after k
\* strictly lower than without it.
C25_PrepaymentLowersLaterInterest ==
  (Returned /\ loan.pik_rate = 0 /\ \A m \in Entries : Entry(m).effective_rate > 0) =>
    \A j \in DOMAIN payments, k \in Entries :
      (/\ IsPrepayment(payments[j])
       /\ payments[j].amount > 0
       /\ Entry(k).start_date <= payments[j].payment_date
       /\ payments[j].payment_date <= Entry(k).end_date) =>
        \A m \in Entries :
          /\ m < k => Entry(m) = ScheduleWithout(j)[m]
          /\ m > k =>
               /\ Entry(m).principal_beginning
                    = ScheduleWithout(j)[m].principal_beginning - payments[j].amount
               /\ Entry(m).interest_owed < ScheduleWithout(j)[m].interest_owed

\* C26: a period_end_convention other than last_business_day and
\* calendar_month_end makes the construction of the Loan fail before a period
\* is produced, also with origination and maturity in the same month, so that
\* every Loan has one of the two; calculate_period_interest fails for every
\* day-count convention other than actual/360, actual/365 and 30/360, and
\* returns a number for these three.
C26_UnknownConventionsRaise ==
  /\ loan # NoLoan =>
       /\ loan.period_end_convention \in {"last_business_day", "calendar_month_end"}
       /\ Len(loan.periods) >= 1
  /\ (result # NoResult /\ "call" \in DOMAIN result) =>
       IF result.args[4] \in {"actual/360", "actual/365", "30/360"}
         THEN result.outcome = "returned" /\ result.value \in Int
         ELSE result.outcome = "raised"

\* calculate_period_interest has raised for a convention it does not know
C26_Witness ==
  /\ result.outcome = "raised"
  /\ "call" \in DOMAIN result
  /\ result.call = "calculate_period_interest"
  /\ result.args[4] = "actual/actual"
  /\ result.args[3] > 0

RECURSIVE SumPik(_)
SumPik(schedule) ==
  IF schedule = << >> THEN 0
  ELSE SumPik(SubSeq(schedule, 1, Len(schedule) - 1)) + schedule[Len(schedule)].pik_amount

\* the principal prepayments dated from origination_date to maturity_date
EventsInTerm ==
  SelectSeq(payments,
            LAMBDA p : /\ IsPrepayment(p)
                       /\ loan.origination_date <= p.payment_date
                       /\ p.payment_date <= loan.maturity_date)

\* C27: the principal_ending of the last entry is loan.principal plus the
\* pik_amount of all entries minus the amounts of all principal prepayments
\* dated from origination_date to maturity_date, and every such prepayment is
\* applied in exactly one period, under either convention.
C27_PrincipalConserved ==
  Returned =>
    /\ Entry(Len(result.schedule)).principal_ending
         = loan.principal + SumPik(result.schedule) - SumAmounts(EventsInTerm)
    /\ \A j \in DOMAIN EventsInTerm :
         Cardinality({k \in Entries :
                        /\ Entry(k).start_date <= EventsInTerm[j].payment_date
                        /\ EventsInTerm[j].payment_date <= Entry(k).end_date
                        /\ InList(EventsInTerm[j], Entry(k).prepayments)}) = 1

\* C28: for origination_date < maturity_date and either convention, every
\* generated period has start_date <= end_date and days >= 1.
C28_NoEmptyPeriod ==
  (loan # NoLoan /\ loan.origination_date < loan.maturity_date) =>
    \A i \in DOMAIN loan.periods :
      /\ loan.periods[i].start_date <= loan.periods[i].end_date
      /\ loan.periods[i].days >= 1

\* C29: every segment of an entry has start_date <= end_date and days >= 1;
\* the first segment starts at the start of the period, the last ends at its
\* end and each other segment starts the day after its predecessor ends.
C29_SegmentsAdjacentNonEmpty ==
  Returned =>
    \A k \in Entries :
      Entry(k).segments # << >> =>
        LET segs == Entry(k).segments
        IN  /\ \A i \in DOMAIN segs : /\ segs[i].start_date <= segs[i].end_date
                                       /\ segs[i].days >= 1
            /\ segs[1].start_date = Entry(k).start_date
            /\ segs[Len(segs)].end_date = Entry(k).end_date
            /\ \A i \in 2 .. Len(segs) : segs[i].start_date = segs[i - 1].end_date + 1

RECURSIVE SumPrepaidApplied(_)
SumPrepaidApplied(schedule) ==
  IF schedule = << >> THEN 0
  ELSE SumPrepaidApplied(SubSeq(schedule, 1, Len(schedule) - 1))
         + schedule[Len(schedule)].prepaid_applied

\* C30: for interest_prepayment >= 0 and non-negative interest in every
\* period, the prepaid_applied of all entries plus the prepaid_balance_end of
\* the last entry equal loan.interest_prepayment, and once prepaid_balance_end
\* is 0 in a period, every later period has prepaid_balance_end = 0 and
\* prepaid_applied = 0.
C30_PrepaidInterestConserved ==
  (/\ Returned
   /\ loan.interest_prepayment >= 0
   /\ \A k \in Entries : Entry(k).interest_owed >= 0) =>
    /\ SumPrepaidApplied(result.schedule)
          + Entry(Len(result.schedule)).prepaid_balance_end = loan.interest_prepayment
    /\ \A k, m \in Entries :
         (Entry(k).prepaid_balance_end = 0 /\ m > k) =>
           (Entry(m).prepaid_balance_end = 0 /\ Entry(m).prepaid_applied = 0)

\* a pre-funded balance used up in a period that is followed by a period with
\* interest owed, which the balance no longer covers
C30_Witness ==
  /\ Returned
  /\ loan.interest_prepayment > 0
  /\ \A k \in Entries : Entry(k).interest_owed >= 0
  /\ \E k \in Entries : /\ k + 1 \in Entries
                          /\ Entry(k).prepaid_applied > 0
                          /\ Entry(k).prepaid_balance_end = 0
                          /\ Entry(k + 1).interest_owed > 0
                          /\ Entry(k + 1).prepaid_applied = 0

====
